---- MODULE Spec2Model ----
(***************************************************************************)
(* Model of src/task/03-date-tasks.js: the lazy sequence producers         *)
(* (getFibonacciSequence, depthTraversalTree, breadthTraversalTree,        *)
(* mergeSortedSequences) and the date helper timeSpanToString.             *)
(*                                                                         *)
(* A generator is modelled by its suspension point (pc) and its locals;    *)
(* one action is one call of next() on it, run to the next yield or to the *)
(* end of the body (JavaScript is single-threaded: a pull is atomic).      *)
(***************************************************************************)
EXTENDS Integers, Sequences, FiniteSets, TLC

VARIABLES
    n,          \* number of nodes of the caller's tree; the nodes are 1..n
    children,   \* node -> its children array, as it currently is on the heap
    children0,  \* node -> its children array as the caller declared it
    trav,       \* traversal producer -> generator state
    fib,        \* Fibonacci producer -> generator state
    mrg,        \* the merge producer and its two source producers
    ts,         \* timeSpanToString: its arguments and its result
    leap        \* isLeapYear: its argument's year and its result

vars == <<n, children, children0, trav, fib, mrg, ts, leap>>

(***************************************************************************)
(* Bounds of the model.                                                    *)
(***************************************************************************)
MaxNodes == 5       \* every tree of up to MaxNodes nodes is enumerated
MaxVal == 3         \* the values of a finite source are -1..MaxVal
MaxLen == 3         \* a finite source holds at most MaxLen values
MaxPulls == 8       \* the merge producer is pulled at most MaxPulls times
MaxThrowAt == 3     \* a raising source raises on one of its first MaxThrowAt pulls

Producers == {1, 2} \* two producer instances may be alive at once

root == 1

(***************************************************************************)
(* Sequence helpers.                                                       *)
(***************************************************************************)
\* Array.prototype.reverse: the elements in the opposite order.
Reverse(s) == [i \in 1..Len(s) |-> s[Len(s) + 1 - i]]

Range(s) == {s[i] : i \in 1..Len(s)}

IsPrefix(s, t) == Len(s) <= Len(t) /\ SubSeq(t, 1, Len(s)) = s

Min(S) == CHOOSE x \in S : \A y \in S : x <= y

RECURSIVE Ascending(_)
Ascending(S) == IF S = {} THEN <<>> ELSE <<Min(S)>> \o Ascending(S \ {Min(S)})

(***************************************************************************)
(* The tree node model: node.children is an ordered array of nodes; a leaf *)
(* has no children property, which the traversals treat like an empty     *)
(* array (both contribute nothing), so a leaf's children are <<>> here.    *)
(***************************************************************************)
\* The tree whose node i > 1 hangs under par[i] < i; the children of a node
\* are declared in ascending order, or in descending order where desc says so.
TreeOf(k, par, desc) ==
    [x \in 1..k |->
        LET asc == Ascending({i \in 2..k : par[i] = x})
        IN  IF desc[x] THEN Reverse(asc) ELSE asc]

BoundedTrees ==
    UNION {
        { TreeOf(k, par, desc) :
            par \in {p \in [2..k -> 1..k] : \A i \in 2..k : p[i] < i},
            desc \in [1..k -> BOOLEAN] }
        : k \in 1..MaxNodes }

\* The tree of the depth-first doc comment: 1 -> 2,6,7; 2 -> 3,4; 4 -> 5; 7 -> 8.
DepthExampleTree ==
    [x \in 1..8 |->
        CASE x = 1 -> <<2, 6, 7>>
          [] x = 2 -> <<3, 4>>
          [] x = 4 -> <<5>>
          [] x = 7 -> <<8>>
          [] OTHER -> <<>>]

\* The tree of the breadth-first doc comment: 1 -> 2,3,4; 2 -> 5,6; 4 -> 7; 6 -> 8.
BreadthExampleTree ==
    [x \in 1..8 |->
        CASE x = 1 -> <<2, 3, 4>>
          [] x = 2 -> <<5, 6>>
          [] x = 4 -> <<7>>
          [] x = 6 -> <<8>>
          [] OTHER -> <<>>]

Trees == BoundedTrees \cup {DepthExampleTree, BreadthExampleTree}

(***************************************************************************)
(* Traversal producers.  pc is the generator's state: "none" (not created),*)
(* "suspendedStart" (created, body not entered), "suspendedYield" (stopped *)
(* at its yield) or "completed".  out is the history of produced values.   *)
(***************************************************************************)
NoTrav ==
    [kind |-> "none", pc |-> "none", nodes |-> <<>>, idx |-> 0, curr |-> 0,
     out |-> <<>>]

\* the tree part when a specification does not exercise it
IdleTree ==
    /\ n = 1
    /\ children = [x \in 1..1 |-> <<>>]
    /\ children0 = children
    /\ trav = [p \in Producers |-> NoTrav]

\* depthTraversalTree(root) / breadthTraversalTree(root): calling a generator
\* function only creates the generator object; no line of the body runs.
Create(p, kind) ==
    /\ trav[p].pc = "none"
    /\ trav' = [trav EXCEPT ![p] = [NoTrav EXCEPT !.kind = kind,
                                                  !.pc = "suspendedStart"]]
    /\ UNCHANGED <<n, children, children0, fib, mrg, ts, leap>>

\* nodes.push(...curr.children.reverse()): the array reverse() returns, appended.
PushChildrenDepthFrontMutant(nodes, ch) == Reverse(ch) \o nodes
PushChildrenDepthMutant(nodes, ch) == nodes \o ch
PushChildrenDepth(nodes, ch) == nodes \o Reverse(ch)

\* curr.children.reverse() reverses the node's own array in place.
ReverseInPlace(ch, x) == [ch EXCEPT ![x] = Reverse(ch[x])]

\* One next() on a depth-first producer.  (A next() on a completed generator
\* answers {value: undefined, done: true} and changes nothing.)
DepthNext(p) ==
    /\ trav[p].kind = "depth"
    /\ LET t == trav[p]
           \* resuming after `yield curr`: the if-statement of lines 232-234
           heap == IF t.pc = "suspendedYield" /\ children[t.curr] # <<>>
                   THEN ReverseInPlace(children, t.curr)
                   ELSE children
           stack == CASE t.pc = "suspendedStart" -> <<root>>
                      [] t.pc = "suspendedYield" ->
                            IF children[t.curr] # <<>>
                            THEN PushChildrenDepth(t.nodes, children[t.curr])
                            ELSE t.nodes
                      [] OTHER -> t.nodes
       IN  \/ /\ t.pc \in {"suspendedStart", "suspendedYield"}
              /\ stack # <<>>                    \* while (nodes.length)
              /\ children' = heap
              /\ trav' = [trav EXCEPT ![p] =
                            [t EXCEPT !.pc = "suspendedYield",
                                      !.curr = stack[Len(stack)],       \* nodes.pop()
                                      !.nodes = SubSeq(stack, 1, Len(stack) - 1),
                                      !.out = Append(t.out, stack[Len(stack)])]]
           \/ /\ t.pc = "suspendedYield"
              /\ stack = <<>>                    \* the loop ends: done
              /\ children' = heap
              /\ trav' = [trav EXCEPT ![p] = [t EXCEPT !.pc = "completed",
                                                       !.nodes = stack]]
    /\ UNCHANGED <<n, children0, fib, mrg, ts, leap>>

\* nodes.push(...node.children)
PushChildrenBreadthTwiceMutant(nodes, ch) == (nodes \o ch) \o ch
PushChildrenBreadthInsertMutant(nodes, ch) ==
    (SubSeq(nodes, 1, Len(nodes) - 1) \o ch) \o <<nodes[Len(nodes)]>>
PushChildrenBreadthMutant(nodes, ch) == nodes \o Reverse(ch)
PushChildrenBreadth(nodes, ch) == nodes \o ch

\* One next() on a breadth-first producer.  for (let node of nodes) walks the
\* array by index and sees what is appended while it runs; idx is the number
\* of elements the array iterator has handed out.
BreadthNext(p) ==
    /\ trav[p].kind = "breadth"
    /\ LET t == trav[p]
           list == CASE t.pc = "suspendedStart" -> <<root>>
                     [] t.pc = "suspendedYield" ->
                           IF children[t.curr] # <<>>
                           THEN PushChildrenBreadth(t.nodes, children[t.curr])
                           ELSE t.nodes
                     [] OTHER -> t.nodes
       IN  \/ /\ t.pc \in {"suspendedStart", "suspendedYield"}
              /\ t.idx < Len(list)
              /\ trav' = [trav EXCEPT ![p] =
                            [t EXCEPT !.pc = "suspendedYield",
                                      !.nodes = list,
                                      !.idx = t.idx + 1,
                                      !.curr = list[t.idx + 1],
                                      !.out = Append(t.out, list[t.idx + 1])]]
           \/ /\ t.pc = "suspendedYield"
              /\ t.idx >= Len(list)
              /\ trav' = [trav EXCEPT ![p] = [t EXCEPT !.pc = "completed",
                                                       !.nodes = list]]
    /\ UNCHANGED <<n, children, children0, fib, mrg, ts, leap>>

(***************************************************************************)
(* Reference notions on the declared tree, used to state the claims.       *)
(***************************************************************************)
RECURSIVE Subtree(_, _)
\* x together with all its descendants in the tree ch
Subtree(ch, x) == {x} \cup UNION {Subtree(ch, ch[x][i]) : i \in 1..Len(ch[x])}

Descendants(ch, x) == Subtree(ch, x) \ {x}

RECURSIVE DepthOf(_, _)
\* number of edges from the root to x
DepthOf(ch, x) ==
    IF x = root THEN 0
    ELSE DepthOf(ch, CHOOSE y \in DOMAIN ch : x \in Range(ch[y])) + 1

ParentOf(ch, x) == CHOOSE y \in DOMAIN ch : x \in Range(ch[y])

\* position of x in a sequence that holds it (0 when it does not)
Pos(s, x) == IF x \in Range(s) THEN CHOOSE i \in 1..Len(s) : s[i] = x ELSE 0

RECURSIVE PreOrderFrom(_, _, _)
\* x, then the pre-orders of the subtrees of its children i, i+1, ...
PreOrderFrom(ch, x, i) ==
    IF i > Len(ch[x]) THEN <<>>
    ELSE (<<ch[x][i]>> \o PreOrderFrom(ch, ch[x][i], 1)) \o PreOrderFrom(ch, x, i + 1)

PreOrder(ch) == <<root>> \o PreOrderFrom(ch, root, 1)

RECURSIVE ChildrenOfAll(_, _)
\* the children of the nodes of the sequence level, parent by parent
ChildrenOfAll(ch, level) ==
    IF level = <<>> THEN <<>>
    ELSE ch[Head(level)] \o ChildrenOfAll(ch, Tail(level))

RECURSIVE LevelOrderFrom(_, _)
LevelOrderFrom(ch, level) ==
    IF level = <<>> THEN <<>>
    ELSE level \o LevelOrderFrom(ch, ChildrenOfAll(ch, level))

LevelOrder(ch) == LevelOrderFrom(ch, <<root>>)

ExactlyOnce(out) == Len(out) = n /\ Range(out) = 1..n

(***************************************************************************)
(* C1: a depth-first producer pulled to exhaustion produces every node of  *)
(* the tree exactly once, every node before all of its descendants and the *)
(* whole subtree of an earlier-declared child before any node of a later-  *)
(* declared child's subtree; on the documented example tree the order is   *)
(* node1, ..., node8.                                                      *)
(***************************************************************************)
DepthProducesPreOrder ==
    trav[1].pc = "completed" =>
        LET out == trav[1].out
        IN  /\ ExactlyOnce(out)
            /\ \A a \in 1..n : \A d \in Descendants(children0, a) :
                    Pos(out, a) < Pos(out, d)
            /\ \A x \in 1..n : \A i, j \in 1..Len(children0[x]) :
                    i < j =>
                        \A u \in Subtree(children0, children0[x][i]) :
                        \A v \in Subtree(children0, children0[x][j]) :
                            Pos(out, u) < Pos(out, v)
            /\ out = PreOrder(children0)
            /\ children0 = DepthExampleTree => out = <<1, 2, 3, 4, 5, 6, 7, 8>>

\* a finished depth-first traversal of a tree in which a first child has a
\* subtree of its own and a later sibling exists
DepthProducesPreOrderWitness ==
    /\ trav[1].kind = "depth"
    /\ trav[1].pc = "completed"
    /\ \E x \in 1..n :
          /\ Len(children0[x]) >= 2
          /\ children0[children0[x][1]] # <<>>

\* the documented example, traversed to the end
DepthExampleWitness ==
    /\ trav[1].kind = "depth"
    /\ trav[1].pc = "completed"
    /\ children0 = DepthExampleTree

(***************************************************************************)
(* C2: a breadth-first producer pulled to exhaustion produces every node   *)
(* exactly once, level by level (no node before a node of smaller depth),  *)
(* and within one level in the order of the parents, then in the order the *)
(* children were declared.                                                 *)
(***************************************************************************)
BreadthProducesLevelOrder ==
    \A p \in Producers :
        (trav[p].kind = "breadth" /\ trav[p].pc = "completed") =>
            LET out == trav[p].out
                ch == children0
            IN  /\ ExactlyOnce(out)
                /\ \A u, v \in 1..n :
                        DepthOf(ch, u) < DepthOf(ch, v) => Pos(out, u) < Pos(out, v)
                /\ \A u, v \in (1..n) \ {root} :
                        (/\ DepthOf(ch, u) = DepthOf(ch, v)
                         /\ \/ Pos(out, ParentOf(ch, u)) < Pos(out, ParentOf(ch, v))
                            \/ /\ ParentOf(ch, u) = ParentOf(ch, v)
                               /\ Pos(ch[ParentOf(ch, u)], u) < Pos(ch[ParentOf(ch, v)], v))
                        => Pos(out, u) < Pos(out, v)
                /\ out = LevelOrder(ch)
                /\ ch = BreadthExampleTree => out = <<1, 2, 3, 4, 5, 6, 7, 8>>

\* a finished breadth-first traversal of a tree whose first child has a child
\* (which depth-first order would produce before the root's second child)
BreadthProducesLevelOrderWitness ==
    \E p \in Producers :
        /\ trav[p].kind = "breadth"
        /\ trav[p].pc = "completed"
        /\ Len(children0[root]) >= 2
        /\ children0[children0[root][1]] # <<>>

(***************************************************************************)
(* C3: the traversal producers only read the tree: whatever has been       *)
(* pulled, every node's children array holds the same elements in the same *)
(* order as the caller declared.                                           *)
(***************************************************************************)
TraversalLeavesTreeUnchanged == children = children0

(***************************************************************************)
(* C8: two producers of the same kind over the same root are independent   *)
(* and have identical content: under every interleaving of their pulls and *)
(* every time of creation, each has produced a prefix of what one producer *)
(* pulled alone produces (pre-order, resp. level order, of the declared    *)
(* tree), so the two never disagree.                                       *)
(***************************************************************************)
AloneOutput(kind) ==
    IF kind = "depth" THEN PreOrder(children0) ELSE LevelOrder(children0)

TwoProducersSameContent ==
    \A p, q \in Producers :
        (trav[p].kind = trav[q].kind /\ trav[p].kind # "none") =>
            /\ IsPrefix(trav[p].out, AloneOutput(trav[p].kind))
            /\ IsPrefix(trav[p].out, trav[q].out) \/ IsPrefix(trav[q].out, trav[p].out)

(***************************************************************************)
(* C15: on every finite tree both traversals signal exhaustion after       *)
(* finitely many pulls, having produced exactly as many values as the tree *)
(* has nodes, and only when the work list holds no node still to be        *)
(* produced; a single-node tree yields just the root, a single chain its   *)
(* nodes from root to leaf.  (The consumer is assumed to go on pulling.)   *)
(***************************************************************************)
WorkListEmpty(t) ==
    IF t.kind = "depth" THEN t.nodes = <<>> ELSE t.idx = Len(t.nodes)

IsChain(ch) == \A x \in DOMAIN ch : Len(ch[x]) <= 1

ExhaustionOnlyWhenDone ==
    \A p \in Producers :
        LET t == trav[p]
        IN  /\ Len(t.out) <= n
            /\ t.pc = "completed" =>
                  /\ Len(t.out) = n
                  /\ Range(t.out) = 1..n
                  /\ WorkListEmpty(t)
                  /\ n = 1 => t.out = <<root>>
                  /\ IsChain(children0) =>
                        /\ t.out[1] = root
                        /\ \A i \in 1..(n - 1) : children0[t.out[i]] = <<t.out[i + 1]>>

AllCompleted == \A p \in Producers : trav[p].pc = "completed"

TraversalsTerminate == []ExhaustionOnlyWhenDone /\ <>AllCompleted

\* a depth-first and a breadth-first producer have both signalled exhaustion
\* on a chain of at least three nodes
TraversalsTerminateWitness ==
    /\ AllCompleted
    /\ trav[1].kind = "depth" /\ trav[2].kind = "breadth"
    /\ IsChain(children0)
    /\ n >= 3

(***************************************************************************)
(* C16: work-list invariant of depthTraversalTree at every suspension      *)
(* point (the producer stopped at its yield): no node occurs twice in the  *)
(* stack, no produced node is in the stack, every node not yet produced    *)
(* has exactly one ancestor-or-self in the stack, and the top of the stack *)
(* is the next node in pre-order.                                          *)
(***************************************************************************)
\* the ancestors of x in the tree ch, x included
AncestorsOrSelf(ch, x) == {a \in DOMAIN ch : x \in Subtree(ch, a)}

NoDuplicates(s) == \A i, j \in 1..Len(s) : s[i] = s[j] => i = j

\* the invariant, stated of the work list `stack` after `out` was produced
WorkListInvariant(stack, out) ==
    /\ NoDuplicates(stack)
    /\ Range(stack) \cap Range(out) = {}
    /\ \A u \in (1..n) \ Range(out) :
          Cardinality(AncestorsOrSelf(children0, u) \cap Range(stack)) = 1
    /\ Len(out) < n =>
          /\ stack # <<>>
          /\ stack[Len(stack)] = PreOrder(children0)[Len(out) + 1]

DepthStackInvariantAtYield ==
    (trav[1].kind = "depth" /\ trav[1].pc = "suspendedYield") =>
        WorkListInvariant(trav[1].nodes, trav[1].out)

(***************************************************************************)
(* C16 as amended: at its yield the producer has popped and produced curr  *)
(* but not yet pushed curr's children (line 233 runs when it is resumed);  *)
(* the invariant holds of the stack with the children of the node just     *)
(* produced counted on top of it, last-declared child lowest: the stack    *)
(* itself never holds a node twice or a produced node, but the descendants *)
(* of the node just produced have no ancestor in it, and its top is the    *)
(* next node in pre-order only when the node just produced is a leaf.      *)
(***************************************************************************)
\* the children of x stacked so that the first-declared child is on top
StackedChildren(x) ==
    [i \in 1..Len(children0[x]) |-> children0[x][Len(children0[x]) + 1 - i]]

DepthStackInvariantWithPendingChildren ==
    (trav[1].kind = "depth" /\ trav[1].pc = "suspendedYield") =>
        LET t == trav[1]
        IN  /\ t.curr = t.out[Len(t.out)]
            /\ children[t.curr] = children0[t.curr]
            /\ WorkListInvariant(t.nodes \o StackedChildren(t.curr), t.out)
            /\ NoDuplicates(t.nodes)
            /\ Range(t.nodes) \cap Range(t.out) = {}
            /\ \A u \in Descendants(children0, t.curr) :
                  AncestorsOrSelf(children0, u) \cap Range(t.nodes) = {}
            /\ (children0[t.curr] = <<>> /\ Len(t.out) < n) =>
                  t.nodes[Len(t.nodes)] = PreOrder(children0)[Len(t.out) + 1]

\* the producer is stopped after producing a node with two or more children
\* while siblings of an ancestor are still on the stack
DepthStackInvariantWitness ==
    /\ trav[1].kind = "depth" /\ trav[1].pc = "suspendedYield"
    /\ Len(children0[trav[1].curr]) >= 2
    /\ trav[1].nodes # <<>>

(***************************************************************************)
(* C17: queue invariant of breadthTraversalTree: the nodes are produced in *)
(* exactly the order in which they were appended to the work list, and at  *)
(* every suspension point the depths of the nodes of the list not yet      *)
(* produced are non-decreasing from front to back and differ by at most    *)
(* one.                                                                    *)
(***************************************************************************)
BreadthQueueInvariant ==
    \A p \in Producers :
        trav[p].kind = "breadth" =>
            LET t == trav[p]
                waiting == SubSeq(t.nodes, t.idx + 1, Len(t.nodes))
            IN  /\ t.idx = Len(t.out)
                /\ t.idx <= Len(t.nodes)
                /\ t.out = SubSeq(t.nodes, 1, t.idx)
                /\ NoDuplicates(t.nodes)
                /\ \A i, j \in 1..Len(waiting) :
                      i < j =>
                          /\ DepthOf(children0, waiting[i]) <= DepthOf(children0, waiting[j])
                          /\ DepthOf(children0, waiting[j]) - DepthOf(children0, waiting[i]) <= 1

\* the producer is stopped with nodes of two different depths waiting
BreadthQueueInvariantWitness ==
    \E p \in Producers :
        /\ trav[p].kind = "breadth" /\ trav[p].pc = "suspendedYield"
        /\ trav[p].idx + 2 <= Len(trav[p].nodes)
        /\ DepthOf(children0, trav[p].nodes[trav[p].idx + 1])
              < DepthOf(children0, trav[p].nodes[Len(trav[p].nodes)])

(***************************************************************************)
(* getFibonacciSequence.  values is the generator's own array, i its loop  *)
(* counter, out the history of produced values.                            *)
(***************************************************************************)
FibCount == 39      \* for (let i = 0; i < 39; i++)

NoFib == [pc |-> "none", values |-> <<>>, i |-> 0, out |-> <<>>]

IdleFib == fib = [p \in Producers |-> NoFib]

\* getFibonacciSequence(): creates the generator object only.
FibCreate(p) ==
    /\ fib[p].pc = "none"
    /\ fib' = [fib EXCEPT ![p] = [NoFib EXCEPT !.pc = "suspendedStart"]]
    /\ UNCHANGED <<n, children, children0, trav, mrg, ts, leap>>

\* getNextValues(values, index), the array after the call: index is 0-based,
\* values[index - 2] is the element at 1-based position index - 1.
GetNextValuesArrayMutant(values, index) ==
    IF index >= Len(values)
    THEN Append(values, values[index] + values[index])
    ELSE values
GetNextValuesArray(values, index) ==
    IF index >= Len(values)
    THEN Append(values, values[index - 1] + values[index])
    ELSE values

\* getNextValues(values, index), the value returned: values[index]
GetNextValues(values, index) == GetNextValuesArray(values, index)[index + 1]

\* One next() on a Fibonacci producer.
FibNext(p) ==
    /\ LET f == fib[p]
           vals == IF f.pc = "suspendedStart" THEN <<0, 1>> ELSE f.values
           i == IF f.pc = "suspendedStart" THEN 0 ELSE f.i + 1
       IN  \/ /\ f.pc \in {"suspendedStart", "suspendedYield"}
              /\ i < FibCount
              /\ fib' = [fib EXCEPT ![p] =
                            [pc |-> "suspendedYield",
                             values |-> GetNextValuesArray(vals, i),
                             i |-> i,
                             out |-> Append(f.out, GetNextValues(vals, i))]]
           \/ /\ f.pc = "suspendedYield"
              /\ i >= FibCount
              /\ fib' = [fib EXCEPT ![p] = [f EXCEPT !.pc = "completed", !.i = i]]
    /\ UNCHANGED <<n, children, children0, trav, mrg, ts, leap>>

(***************************************************************************)
(* C9: a Fibonacci producer produces exactly 39 values and then signals    *)
(* exhaustion; the value at position k is term(k) with term(0) = 0,        *)
(* term(1) = 1, term(k) = term(k-1) + term(k-2) (position 10 is 55); every *)
(* producer starts from 0 however far another one was consumed.            *)
(***************************************************************************)
FibonacciTerms ==
    \A p \in Producers :
        LET out == fib[p].out
        IN  /\ Len(out) <= 39
            /\ fib[p].pc = "completed" <=> (Len(out) = 39 /\ fib[p].i = 39)
            /\ Len(out) >= 1 => out[1] = 0
            /\ Len(out) >= 2 => out[2] = 1
            /\ \A k \in 3..Len(out) : out[k] = out[k - 1] + out[k - 2]
            /\ Len(out) >= 11 => out[11] = 55
            /\ Len(out) >= 39 => out[39] = 39088169

\* one producer consumed to the end, the other created and pulled 11 times
FibonacciTermsWitness ==
    /\ fib[1].pc = "completed"
    /\ Len(fib[1].out) = 39
    /\ Len(fib[2].out) = 11
    /\ fib[2].out[11] = 55

(***************************************************************************)
(* mergeSortedSequences(source1, source2).                                 *)
(*                                                                         *)
(* A JavaScript value is <<v>> for the number v and <<>> for undefined.    *)
(* A source is a generator function of the caller: either a finite list of *)
(* numbers or the endless progression start, start + step, ...; pos is the *)
(* number of values its generator has handed out, finished whether the     *)
(* generator has returned (a pull then answers {value: undefined, done:    *)
(* true}), calls the number of next() calls made on it.                    *)
(***************************************************************************)
Undefined == <<>>
Num(v) == <<v>>

IdleMerge == mrg = <<>>
IdleTs == ts = [pc |-> "none", startDate |-> 0, endDate |-> 0, result |-> ""]
IdleLeap == leap = [pc |-> "none", year |-> 0, result |-> FALSE]

ListSource(items) ==
    [kind |-> "list", items |-> items, start |-> 0, step |-> 0,
     pos |-> 0, finished |-> FALSE, calls |-> 0, throwAt |-> 0, error |-> "none"]

ArithSource(start, step) ==
    [kind |-> "arith", items |-> <<>>, start |-> start, step |-> step,
     pos |-> 0, finished |-> FALSE, calls |-> 0, throwAt |-> 0, error |-> "none"]

\* a source whose generator raises the error err on its k-th pull
ThrowingSource(src, k, err) == [src EXCEPT !.throwAt = k, !.error = err]

\* the pull about to be made raises (a generator that has returned never does)
SourceThrows(src) == ~src.finished /\ src.throwAt = src.calls + 1

\* the source generator after a next() that raised: it is closed
SourceAfterThrow(src) == [src EXCEPT !.finished = TRUE, !.calls = src.calls + 1]

SourceHasNext(src) == src.kind = "arith" \/ src.pos < Len(src.items)

\* seq.next().value
SourceValue(src) ==
    IF ~SourceHasNext(src) THEN Undefined
    ELSE IF src.kind = "arith" THEN Num(src.start + src.step * src.pos)
    ELSE Num(src.items[src.pos + 1])

\* the source generator after seq.next()
SourceAfter(src) ==
    IF SourceHasNext(src)
    THEN [src EXCEPT !.pos = src.pos + 1, !.calls = src.calls + 1]
    ELSE [src EXCEPT !.finished = TRUE, !.calls = src.calls + 1]

MathMinMutant(a, b) == b
MathMin(a, b) == IF a <= b THEN a ELSE b
MathMax(a, b) == IF a >= b THEN a ELSE b

\* The if / else-if / else of one round: the value of the round's first yield
\* and the yield the generator stops at.
RoundYieldLiveMutant(s1, s2) ==
    IF s1 = Undefined THEN [value |-> s2, pc |-> "yield_s2"]
    ELSE IF s2 = Undefined THEN [value |-> s2, pc |-> "yield_s1"]
    ELSE [value |-> Num(MathMin(s1[1], s2[1])), pc |-> "yield_min"]
RoundYieldMutant(s1, s2) ==
    IF s1 = Undefined THEN [value |-> s1, pc |-> "yield_s2"]
    ELSE IF s2 = Undefined THEN [value |-> s2, pc |-> "yield_s1"]
    ELSE [value |-> Num(MathMin(s1[1], s2[1])), pc |-> "yield_min"]
RoundYield(s1, s2) ==
    IF s1 = Undefined THEN [value |-> s2, pc |-> "yield_s2"]
    ELSE IF s2 = Undefined THEN [value |-> s1, pc |-> "yield_s1"]
    ELSE [value |-> Num(MathMin(s1[1], s2[1])), pc |-> "yield_min"]

\* One next() on the merge producer.  The body is while (true) with no return:
\* every pull answers {value: ..., done: false}.
MergeNext ==
    /\ mrg.pulls < MaxPulls
    /\ \/ /\ mrg.pc \in {"suspendedStart", "yield_s2", "yield_s1", "yield_max"}
          /\ ~SourceThrows(mrg.src1) /\ ~SourceThrows(mrg.src2)
          /\ LET s1 == SourceValue(mrg.src1)
                 s2 == SourceValue(mrg.src2)
                 y == RoundYield(s1, s2)
             IN  mrg' = [mrg EXCEPT !.pc = y.pc,
                                    !.src1 = SourceAfter(mrg.src1),
                                    !.src2 = SourceAfter(mrg.src2),
                                    !.s1 = s1,
                                    !.s2 = s2,
                                    !.out = Append(mrg.out, y.value),
                                    !.last = [value |-> y.value, done |-> FALSE],
                                    !.pulls = mrg.pulls + 1]
       \/ /\ mrg.pc = "yield_min"
          /\ LET v == Num(MathMax(mrg.s1[1], mrg.s2[1]))
             IN  mrg' = [mrg EXCEPT !.pc = "yield_max",
                                    !.out = Append(mrg.out, v),
                                    !.last = [value |-> v, done |-> FALSE],
                                    !.pulls = mrg.pulls + 1]
    /\ UNCHANGED <<n, children, children0, trav, fib, ts, leap>>

\* The merge generator after an error raised inside its body: there is no
\* try / catch in it, so the error leaves next() and the generator is closed.
RaiseMutant(m, err) ==
    [m EXCEPT !.pc = "yield_s2", !.out = Append(m.out, Undefined),
              !.raised = "none", !.pulls = m.pulls + 1]
Raise(m, err) ==
    [m EXCEPT !.pc = "completed", !.raised = err, !.pulls = m.pulls + 1]

\* One next() on the merge producer during which a source's next() raises.
\* seq1.next() runs first: when it raises, seq2.next() is not reached.
MergeNextThrows ==
    /\ mrg.pulls < MaxPulls
    /\ mrg.pc \in {"suspendedStart", "yield_s2", "yield_s1", "yield_max"}
    /\ \/ /\ SourceThrows(mrg.src1)
          /\ mrg' = [Raise(mrg, mrg.src1.error) EXCEPT
                        !.src1 = SourceAfterThrow(mrg.src1)]
       \/ /\ ~SourceThrows(mrg.src1)
          /\ SourceThrows(mrg.src2)
          /\ mrg' = [Raise(mrg, mrg.src2.error) EXCEPT
                        !.src1 = SourceAfter(mrg.src1),
                        !.src2 = SourceAfterThrow(mrg.src2)]
    /\ UNCHANGED <<n, children, children0, trav, fib, ts, leap>>

\* One next() on the merge producer after an error closed it: it answers
\* {value: undefined, done: true} and runs no line of the body.
MergeNextCompleted ==
    /\ mrg.pulls < MaxPulls
    /\ mrg.pc = "completed"
    /\ mrg' = [mrg EXCEPT !.raised = "none",
                          !.last = [value |-> Undefined, done |-> TRUE],
                          !.pulls = mrg.pulls + 1]
    /\ UNCHANGED <<n, children, children0, trav, fib, ts, leap>>

Values == (0 - 1)..MaxVal

IsSorted(s) == \A i \in 1..(Len(s) - 1) : s[i] <= s[i + 1]

SortedLists ==
    UNION {{s \in [1..k -> Values] : IsSorted(s)} : k \in 0..MaxLen}

\* the sources the caller may pass: each yields its values in non-decreasing order
Sources ==
    {ListSource(s) : s \in SortedLists}
        \cup {ArithSource(a, d) : a \in Values, d \in 1..2}


(***************************************************************************)
(* Notions used to state the claims about the merge.                       *)
(***************************************************************************)
\* the values a source generator has handed out so far, in order
SourceTaken(src) ==
    IF src.kind = "arith"
    THEN [i \in 1..src.pos |-> src.start + src.step * (i - 1)]
    ELSE SubSeq(src.items, 1, src.pos)

\* number of occurrences of the element e in the sequence s
Count(s, e) == Cardinality({i \in 1..Len(s) : s[i] = e})

\* the source's next pull yields no value
Exhausted(src) == ~SourceHasNext(src)

BothFinite == mrg.src1.kind = "list" /\ mrg.src2.kind = "list"

\* the merge producer is between two rounds (not inside an ordered pair)
BetweenRounds == mrg.pc # "yield_min"

(***************************************************************************)
(* C4: for two sources that each yield values in non-decreasing order, the *)
(* merged sequence is non-decreasing: every produced value is greater than *)
(* or equal to the value produced before it.                               *)
(***************************************************************************)
MergeOutputNonDecreasing ==
    \A i \in 2..Len(mrg.out) :
        (mrg.out[i - 1] # Undefined /\ mrg.out[i] # Undefined) =>
            mrg.out[i - 1][1] <= mrg.out[i][1]

(***************************************************************************)
(* C5: the merge loses and duplicates nothing: every value pulled from a   *)
(* source is produced exactly once, and for two finite sources, once both  *)
(* are used up, what the merge has produced is exactly the values of       *)
(* source1 together with the values of source2, each as often as there.    *)
(***************************************************************************)
\* every pulled value is produced once (the larger value of an ordered pair
\* is still to come while the producer is stopped at the smaller)
PulledValuesProducedOnce ==
    LET pulled == SourceTaken(mrg.src1) \o SourceTaken(mrg.src2)
        pending == IF BetweenRounds THEN <<>>
                   ELSE <<MathMax(mrg.s1[1], mrg.s2[1])>>
    IN  \A v \in Range(pulled) \cup {e[1] : e \in Range(mrg.out) \ {Undefined}} :
            Count(mrg.out, Num(v)) + Count(pending, v) = Count(pulled, v)

MergeLosesAndDuplicatesNothing ==
    /\ PulledValuesProducedOnce
    /\ (BothFinite /\ mrg.src1.finished /\ mrg.src2.finished) =>
          /\ Len(mrg.out) = Len(mrg.src1.items) + Len(mrg.src2.items)
          /\ \A e \in Range(mrg.out) :
                /\ e # Undefined
                /\ Count(mrg.out, e) =
                      Count(mrg.src1.items, e[1]) + Count(mrg.src2.items, e[1])

(***************************************************************************)
(* C6: with two finite sources the merged sequence ends: once both sources *)
(* have signalled exhaustion, the next pull on the merge producer signals  *)
(* exhaustion and produces no further value.                               *)
(***************************************************************************)
MergeEndsAfterFiniteSources ==
    [][(/\ mrg.src1.finished
        /\ mrg.src2.finished
        /\ mrg'.pulls = mrg.pulls + 1)
       => (mrg'.last.done /\ mrg'.out = mrg.out)]_vars

(***************************************************************************)
(* C7: while exactly one source is exhausted, every pull produces exactly  *)
(* the live source's next value, alone and in the source's own order;      *)
(* [0] merged with 2,4,6,... is 0,2,4,6,... and 1,3,5,... merged with [-1] *)
(* is -1,1,3,5,...                                                         *)
(***************************************************************************)
\* a pull made between rounds that finds `dead` exhausted and `live` not
ForwardsLive(dead, live, dead2, live2) ==
    (BetweenRounds /\ Exhausted(dead) /\ ~Exhausted(live) /\ mrg'.pulls = mrg.pulls + 1)
        => /\ mrg'.out = Append(mrg.out, SourceValue(live))
           /\ live2.pos = live.pos + 1
           /\ SourceTaken(live2) = Append(SourceTaken(live), SourceValue(live)[1])
           /\ dead2.pos = dead.pos
           /\ mrg'.pc # "yield_min"

IsList(src, items) == src.kind = "list" /\ src.items = items
IsArith(src, start, step) == src.kind = "arith" /\ src.start = start /\ src.step = step

MergeForwardsLiveSource ==
    [][/\ ForwardsLive(mrg.src1, mrg.src2, mrg'.src1, mrg'.src2)
       /\ ForwardsLive(mrg.src2, mrg.src1, mrg'.src2, mrg'.src1)
       /\ (IsList(mrg.src1, <<0>>) /\ IsArith(mrg.src2, 2, 2))
             => \A k \in 1..Len(mrg'.out) : mrg'.out[k] = Num(2 * (k - 1))
       /\ (IsArith(mrg.src1, 1, 2) /\ IsList(mrg.src2, <<0 - 1>>))
             => \A k \in 1..Len(mrg'.out) : mrg'.out[k] = Num(2 * k - 3)
      ]_vars

\* [0] merged with 2,4,6,...: the finite source has signalled exhaustion and
\* the live one has been forwarded alone at least three times
MergeForwardsLiveSourceWitness ==
    /\ IsList(mrg.src1, <<0>>) /\ IsArith(mrg.src2, 2, 2)
    /\ mrg.src1.finished
    /\ mrg.src1.calls >= mrg.src1.pos + 3
    /\ mrg.pc = "yield_s2"
    /\ mrg.out[Len(mrg.out)] = Num(2 * (Len(mrg.out) - 1))

(***************************************************************************)
(* C12: once a source has signalled exhaustion, the merge producer never   *)
(* pulls from that source again.                                           *)
(***************************************************************************)
ExhaustedSourceNotPulledAgain ==
    [][/\ mrg.src1.finished => mrg'.src1.calls = mrg.src1.calls
       /\ mrg.src2.finished => mrg'.src2.calls = mrg.src2.calls]_vars

(***************************************************************************)
(* C12 as amended: once a source has signalled exhaustion, every later     *)
(* round still pulls it once (line 285 / 286 runs in every round); that    *)
(* pull yields no value again, nothing of the source is produced, and the  *)
(* value the round produces is the one the other source yielded in it      *)
(* (unless the other source's pull raises an error).                       *)
(***************************************************************************)
RepolledExhausted(dead, other, dead2, other2) ==
    (/\ dead.finished /\ mrg.pc # "completed" /\ ~SourceThrows(other)
     /\ mrg'.pulls = mrg.pulls + 1)
        => /\ dead2.calls = dead.calls + 1
           /\ dead2.pos = dead.pos
           /\ SourceTaken(dead2) = SourceTaken(dead)
           /\ other2.calls = other.calls + 1
           /\ mrg'.out = Append(mrg.out, SourceValue(other))
           /\ mrg'.pc # "yield_min"

ExhaustedSourceYieldsNothingMore ==
    [][/\ RepolledExhausted(mrg.src1, mrg.src2, mrg'.src1, mrg'.src2)
       /\ RepolledExhausted(mrg.src2, mrg.src1, mrg'.src2, mrg'.src1)]_vars

\* source2 signalled exhaustion and was pulled at least twice more while
\* source1 went on yielding values
ExhaustedSourceYieldsNothingMoreWitness ==
    /\ mrg.src2.finished
    /\ mrg.src2.calls >= mrg.src2.pos + 3
    /\ mrg.src2.pos >= 1
    /\ mrg.pc = "yield_s1"
    /\ mrg.out[Len(mrg.out)] # Undefined

(***************************************************************************)
(* C13: in a round in which both sources yield a value exactly one value   *)
(* is pulled from each, the smaller is produced first, the larger second,  *)
(* and neither source is pulled before both are produced; so at most one   *)
(* pulled value per source is unproduced at any time, and no source is     *)
(* pulled before the consumer's first request.                             *)
(***************************************************************************)
\* the last value the source generator handed out
LastTaken(src) == SourceTaken(src)[src.pos]

\* the numbers produced so far
Produced == SelectSeq(mrg.out, LAMBDA e : e # Undefined)

SmallerOf(a, b) == CHOOSE m \in {a, b} : m <= a /\ m <= b
LargerOf(a, b) == CHOOSE m \in {a, b} : m >= a /\ m >= b

MergeRoundOrdersPair ==
    [][/\ (/\ BetweenRounds
           /\ ~Exhausted(mrg.src1) /\ ~Exhausted(mrg.src2)
           /\ mrg'.pulls = mrg.pulls + 1)
          => /\ mrg'.src1.pos = mrg.src1.pos + 1
             /\ mrg'.src2.pos = mrg.src2.pos + 1
             /\ mrg'.src1.calls = mrg.src1.calls + 1
             /\ mrg'.src2.calls = mrg.src2.calls + 1
             /\ mrg'.out = Append(mrg.out,
                    Num(SmallerOf(SourceValue(mrg.src1)[1], SourceValue(mrg.src2)[1])))
             /\ mrg'.pc = "yield_min"
       /\ (mrg.pc = "yield_min" /\ mrg'.pulls = mrg.pulls + 1)
          => /\ mrg'.src1 = mrg.src1
             /\ mrg'.src2 = mrg.src2
             /\ mrg'.out = Append(mrg.out,
                    Num(LargerOf(LastTaken(mrg.src1), LastTaken(mrg.src2))))
             /\ mrg'.pc # "yield_min"
       /\ LET unproduced == mrg'.src1.pos + mrg'.src2.pos - Len(Produced)'
          IN  /\ unproduced \in {0, 1}
              /\ unproduced = 1 <=> mrg'.pc = "yield_min"
       /\ mrg.pulls = 0 => (mrg.src1.calls = 0 /\ mrg.src2.calls = 0)
      ]_vars

\* a round whose pair came out of the sources in the wrong order (source1's
\* value the larger) has been produced completely
MergeRoundOrdersPairWitness ==
    /\ mrg.pc = "yield_max"
    /\ mrg.s1 # Undefined /\ mrg.s2 # Undefined
    /\ mrg.s1[1] > mrg.s2[1]
    /\ Len(mrg.out) >= 4
    /\ mrg.out[Len(mrg.out) - 1] = mrg.s2
    /\ mrg.out[Len(mrg.out)] = mrg.s1

(***************************************************************************)
(* C14: when a source raises an error during a pull made by the merge, the *)
(* same error is raised to the merge's consumer in that step: the step     *)
(* produces no value, the pull is not retried and no value of the other    *)
(* source is produced in its place.                                        *)
(***************************************************************************)
SourceErrorPropagates ==
    [][/\ (/\ BetweenRounds /\ mrg.pc # "completed"
           /\ SourceThrows(mrg.src1)
           /\ mrg'.pulls = mrg.pulls + 1)
          => /\ mrg'.raised = mrg.src1.error
             /\ mrg'.out = mrg.out
             /\ mrg'.src1.calls = mrg.src1.calls + 1
             /\ mrg'.src2 = mrg.src2
       /\ (/\ BetweenRounds /\ mrg.pc # "completed"
           /\ ~SourceThrows(mrg.src1) /\ SourceThrows(mrg.src2)
           /\ mrg'.pulls = mrg.pulls + 1)
          => /\ mrg'.raised = mrg.src2.error
             /\ mrg'.out = mrg.out
             /\ mrg'.src2.calls = mrg.src2.calls + 1
             /\ mrg'.src1.calls = mrg.src1.calls + 1
       \* afterwards nothing is pulled and nothing is produced
       /\ (mrg.raised # "none" \/ mrg.pc = "completed")
          => /\ mrg'.src1 = mrg.src1
             /\ mrg'.src2 = mrg.src2
             /\ mrg'.out = mrg.out
             /\ mrg'.raised = "none"
       \* an error reaches the consumer only when a source raised it
       /\ mrg'.raised # "none"
          => \/ SourceThrows(mrg.src1) /\ mrg'.raised = mrg.src1.error
             \/ SourceThrows(mrg.src2) /\ mrg'.raised = mrg.src2.error
      ]_vars

\* source2 raised after the merge had produced values, while source1 had a
\* value to give, and the consumer pulled again afterwards
SourceErrorPropagatesWitness ==
    /\ mrg.pc = "completed"
    /\ mrg.src2.throwAt >= 2
    /\ mrg.src2.calls = mrg.src2.throwAt
    /\ mrg.src1.throwAt = 0
    /\ mrg.src1.pos = mrg.src2.calls
    /\ Len(mrg.out) >= 2
    /\ mrg.last.done
    /\ mrg.raised = "none"

(***************************************************************************)
(* timeSpanToString(startDate, endDate).  A Date is its time value, the    *)
(* milliseconds since the epoch; the UTC getters are the fields of that    *)
(* instant's clock reading.  Strings are built as the code builds them.    *)
(***************************************************************************)
GetUTCHours(t) == (t \div 3600000) % 24
GetUTCMinutes(t) == (t \div 60000) % 60
GetUTCSeconds(t) == (t \div 1000) % 60
GetUTCMilliseconds(t) == t % 1000

Digit(d) ==
    CASE d = 0 -> "0" [] d = 1 -> "1" [] d = 2 -> "2" [] d = 3 -> "3"
      [] d = 4 -> "4" [] d = 5 -> "5" [] d = 6 -> "6" [] d = 7 -> "7"
      [] d = 8 -> "8" [] d = 9 -> "9"

RECURSIVE NumberToString(_)
\* the string a number becomes when concatenated to a string
NumberToString(x) ==
    IF x < 0 THEN "-" \o NumberToString(0 - x)
    ELSE IF x < 10 THEN Digit(x)
    ELSE NumberToString(x \div 10) \o Digit(x % 10)

\* x < 10 ? "0" + x : x
TwoPlaces(x) == IF x < 10 THEN "0" \o NumberToString(x) ELSE NumberToString(x)

\* x < 10 ? "00" + x : x < 100 ? "0" + x : x
ThreePlaces(x) ==
    IF x < 10 THEN "00" \o NumberToString(x)
    ELSE IF x < 100 THEN "0" \o NumberToString(x)
    ELSE NumberToString(x)

timeSpanToString(startDate, endDate) ==
    LET minutesOnTheClock == GetUTCMinutes(endDate) - GetUTCMinutes(startDate)
        hoursOnTheClock == GetUTCHours(endDate) - GetUTCHours(startDate)
        milliSecondsOnTheClock ==
            GetUTCMilliseconds(endDate) - GetUTCMilliseconds(startDate)
        secondsOnTheClock == GetUTCSeconds(endDate) - GetUTCSeconds(startDate)
    IN  TwoPlaces(hoursOnTheClock) \o ":" \o TwoPlaces(minutesOnTheClock) \o ":"
            \o TwoPlaces(secondsOnTheClock) \o "." \o ThreePlaces(milliSecondsOnTheClock)

\* the instant of the clock reading h:m:s.ms on day d after the epoch
Instant(d, h, m, sec, ms) == (((d * 24 + h) * 60 + m) * 60 + sec) * 1000 + ms

\* the start instants and the spans the calls are made with: they hold the
\* five calls of the doc comment (10:00:00 plus 1 h, 30 min, 20 s, 250 ms,
\* 5:20:10.453) and spans that cross a minute, an hour and a day
StartInstants ==
    {Instant(0, h, m, sec, ms) : h \in {10, 23}, m \in {0, 30}, sec \in {0, 20},
                                 ms \in {0, 250}}

Spans ==
    {Instant(0, h, m, sec, ms) : h \in {0, 1, 5, 25, 99}, m \in {0, 20, 30},
                                 sec \in {0, 10, 20}, ms \in {0, 5, 250, 453}}

\* the call timeSpanToString(ts.startDate, ts.endDate)
TimeSpanCall ==
    /\ ts.pc = "call"
    /\ ts' = [ts EXCEPT !.pc = "returned",
                        !.result = timeSpanToString(ts.startDate, ts.endDate)]
    /\ UNCHANGED <<n, children, children0, trav, fib, mrg, leap>>

(***************************************************************************)
(* C10: for start <= end less than 100 hours apart the result is the       *)
(* elapsed time d = end - start as "HH:mm:ss.sss": floor(d / 3600000),     *)
(* floor(d / 60000) mod 60, floor(d / 1000) mod 60 and d mod 1000, each    *)
(* non-negative and zero-padded to 2, 2, 2 and 3 digits.                   *)
(***************************************************************************)
RECURSIVE Padded(_, _)
\* the decimal digits of x >= 0, zero-padded on the left to width w
Padded(x, w) ==
    IF w = 0 THEN "" ELSE Padded(x \div 10, w - 1) \o Digit(x % 10)

ElapsedString(d) ==
    Padded(d \div 3600000, 2) \o ":" \o Padded((d \div 60000) % 60, 2) \o ":"
        \o Padded((d \div 1000) % 60, 2) \o "." \o Padded(d % 1000, 3)

TimeSpanIsElapsedTime ==
    (/\ ts.pc = "returned"
     /\ ts.startDate <= ts.endDate
     /\ ts.endDate - ts.startDate < 100 * 3600000)
        => ts.result = ElapsedString(ts.endDate - ts.startDate)

(***************************************************************************)
(* isLeapYear(date).  The function reads only date.getFullYear(), so the   *)
(* argument is modelled by its year.                                       *)
(***************************************************************************)
isLeapYearMutant(year) ==
    LET divedeByFour == year % 4 = 0
        notDivedeByOneHundred == year % 100 # 0
    IN  divedeByFour /\ notDivedeByOneHundred
isLeapYear(year) ==
    LET divedeByFour == year % 4 = 0
        notDivedeByOneHundred == year % 100 # 0
        divedeByFourHundred == year % 400 = 0
    IN  (divedeByFour /\ notDivedeByOneHundred) \/ divedeByFourHundred

\* the years the calls are made with: they hold the years of the doc comment
\* (1900, 2000, 2001, 2012, 2015) and the century years 1600 .. 2400
Years == 1590..2410

\* the call isLeapYear(date)
LeapYearCall ==
    /\ leap.pc = "call"
    /\ leap' = [leap EXCEPT !.pc = "returned", !.result = isLeapYear(leap.year)]
    /\ UNCHANGED <<n, children, children0, trav, fib, mrg, ts>>

(***************************************************************************)
(* C11: isLeapYear returns true exactly when the year is divisible by 400, *)
(* or divisible by 4 and not by 100 (1900 -> false, 2000 -> true,          *)
(* 2001 -> false, 2012 -> true), and false for every other year.           *)
(***************************************************************************)
DivisibleBy(y, k) == \E q \in 0..y : q * k = y

LeapYearRule ==
    leap.pc = "returned" =>
        /\ leap.result = TRUE <=>
              \/ DivisibleBy(leap.year, 400)
              \/ DivisibleBy(leap.year, 4) /\ ~DivisibleBy(leap.year, 100)
        /\ leap.year = 1900 => leap.result = FALSE
        /\ leap.year = 2000 => leap.result = TRUE
        /\ leap.year = 2001 => leap.result = FALSE
        /\ leap.year = 2012 => leap.result = TRUE

\* a century year divisible by 400 has been answered
LeapYearRuleWitness ==
    leap.pc = "returned" /\ leap.year = 2000 /\ leap.result = TRUE

(***************************************************************************)
(* The specifications: each exercises one part and leaves the others idle. *)
(***************************************************************************)
InitTree ==
    /\ children0 \in Trees
    /\ children = children0
    /\ n = Cardinality(DOMAIN children0)
    /\ trav = [p \in Producers |-> NoTrav]
    /\ IdleFib /\ IdleMerge /\ IdleTs /\ IdleLeap

\* One depth-first producer alone on the tree.
NextDepth == Create(1, "depth") \/ DepthNext(1)
SpecDepth == InitTree /\ [][NextDepth]_vars

\* Breadth-first producers only.
NextBreadth == \E p \in Producers : Create(p, "breadth") \/ BreadthNext(p)
SpecBreadth == InitTree /\ [][NextBreadth]_vars

\* Any two traversal producers over the same tree, created and pulled in any order.
NextTree ==
    \E p \in Producers :
        \/ \E kind \in {"depth", "breadth"} : Create(p, kind)
        \/ DepthNext(p)
        \/ BreadthNext(p)
SpecTree == InitTree /\ [][NextTree]_vars

\* The same, with a consumer that goes on pulling (and creating the producers)
\* as long as there is something to pull.
SpecTreeFair == SpecTree /\ WF_vars(NextTree)

InitFib ==
    /\ IdleTree /\ IdleMerge /\ IdleTs /\ IdleLeap
    /\ fib = [p \in Producers |-> NoFib]

NextFib == \E p \in Producers : FibCreate(p) \/ FibNext(p)
SpecFib == InitFib /\ [][NextFib]_vars

InitMerge ==
    /\ IdleTree /\ IdleFib /\ IdleTs /\ IdleLeap
    /\ \E a \in Sources, b \in Sources :
          mrg = [pc |-> "suspendedStart", src1 |-> a, src2 |-> b,
                 s1 |-> Undefined, s2 |-> Undefined, out |-> <<>>,
                 last |-> [value |-> Undefined, done |-> FALSE], pulls |-> 0,
                 raised |-> "none"]

SpecMerge == InitMerge /\ [][MergeNext]_vars

InitTimeSpan ==
    /\ IdleTree /\ IdleFib /\ IdleMerge /\ IdleLeap
    /\ \E t \in StartInstants, d \in Spans :
          ts = [pc |-> "call", startDate |-> t, endDate |-> t + d, result |-> ""]

SpecTimeSpan == InitTimeSpan /\ [][TimeSpanCall]_vars

InitLeapYear ==
    /\ IdleTree /\ IdleFib /\ IdleMerge /\ IdleTs
    /\ \E y \in Years : leap = [pc |-> "call", year |-> y, result |-> FALSE]

SpecLeapYear == InitLeapYear /\ [][LeapYearCall]_vars

\* the sources of the runs in which a source raises: short lists and the
\* endless progressions
ShortSources == {src \in Sources : Len(src.items) <= 2}

MayThrow(src, err) ==
    {src} \cup {ThrowingSource(src, k, err) : k \in 1..MaxThrowAt}

InitMergeThrow ==
    /\ IdleTree /\ IdleFib /\ IdleTs /\ IdleLeap
    /\ \E a \in ShortSources, b \in ShortSources :
       \E ta \in MayThrow(a, "error1"), tb \in MayThrow(b, "error2") :
          /\ ta.throwAt # 0 \/ tb.throwAt # 0
          /\ mrg = [pc |-> "suspendedStart", src1 |-> ta, src2 |-> tb,
                    s1 |-> Undefined, s2 |-> Undefined, out |-> <<>>,
                    last |-> [value |-> Undefined, done |-> FALSE], pulls |-> 0,
                    raised |-> "none"]

NextMergeThrow == MergeNext \/ MergeNextThrows \/ MergeNextCompleted
SpecMergeThrow == InitMergeThrow /\ [][NextMergeThrow]_vars

====
